---------------------------- MODULE Spec2Model ----------------------------
(***************************************************************************)
(* State-machine model of the App component of the e-commerce data agent   *)
(* (src/unnamed/part_000): the sql.js database handle, the three CSV       *)
(* slots, loadDataIntoDB with its per-dataset transaction, and askQuestion *)
(* with its two LLM round trips, typeText and the chart state.             *)
(*                                                                         *)
(* part_000 holds two revisions of the component (lines 1-529 and          *)
(* 531-1089).  loadDataIntoDB is the same in both; where askQuestion       *)
(* differs (how the SQL text is extracted from the first response, and the *)
(* wording of the fixed messages) the variable `variant' selects the       *)
(* revision.                                                               *)
(*                                                                         *)
(* JavaScript runs one task at a time.  A handler is split into actions    *)
(* only at its suspension points; the synchronous body of parseAndInsert   *)
(* is further split into its statements, and while it runs (loadPc # idle) *)
(* no other action is enabled.                                             *)
(***************************************************************************)
EXTENDS Integers, Sequences, FiniteSets, TLC

\* ------------------------------------------------------------------ bounds
\* Largest number of data rows of an uploaded CSV.
MaxRows == 2
\* Largest number of typeText intervals alive when a question is accepted.
MaxTimers == 1

\* ------------------------------------------------------------- the schema
NULL == "null"

\* The three datasets, in the order loadDataIntoDB ingests them.
TABLE_SCHEMAS ==
    << "product_ad_sales_metrics",
       "product_total_sales_metrics",
       "product_eligibility" >>

NumTables == Len(TABLE_SCHEMAS)
Slots == 1..NumTables

\* The values the primary-key tuple (date, item_id) takes in the uploaded
\* files.
Keys == {1, 2}

\* ------------------------------------------------- uploaded CSV contents
(* What Papa.parse(csvContent, {header: true, skipEmptyLines: true}) hands  *)
(* to `complete' for one uploaded text: whether results.errors is           *)
(* non-empty, whether every header name is a column of the target table,    *)
(* and results.data, one entry per data row.  A row is represented by the   *)
(* value of its primary-key tuple after the per-cell conversion.            *)
\* n rows with keys 1, 2, 1, 2, ...: the third row repeats the first.
Alternating(n) == [i \in 1..n |-> IF i % 2 = 1 THEN 1 ELSE 2]
\* n rows that all carry key 1: the second row repeats the first.
Repeated(n) == [i \in 1..n |-> 1]

WellFormedData ==
    {<<>>, <<2>>}
    \cup {Alternating(n) : n \in 1..MaxRows}
    \cup {Repeated(n) : n \in 2..MaxRows}

WellFormedCsv(d) ==
    [present |-> TRUE, errors |-> FALSE, knownColumns |-> TRUE, data |-> d]
\* (results.data of a text with errors still holds the rows that were read)
MalformedCsv ==
    [present |-> TRUE, errors |-> TRUE, knownColumns |-> TRUE, data |-> <<1>>]
UnknownColumnCsv ==
    [present |-> TRUE, errors |-> FALSE, knownColumns |-> FALSE, data |-> <<1>>]
\* useState(null): nothing uploaded into the slot yet.
NoCsv ==
    [present |-> FALSE, errors |-> FALSE, knownColumns |-> TRUE, data |-> <<>>]

CsvFiles ==
    {WellFormedCsv(d) : d \in WellFormedData} \cup {MalformedCsv, UnknownColumnCsv}

\* The files the question-answering specification lets the user pick.

\* ------------------------------------------------------------- messages
\* A message is the sequence of the fragments its template literal joins;
\* the empty sequence is the empty string.
NoError == <<>>
ErrDbNotInitialized == <<"Database not initialized.">>
ErrUploadAll == <<"Please upload all three CSV files.">>
ErrReadFile == <<"Failed to read file.">>
ErrInitDb == <<"Failed to initialize database: ", "engine load failed">>
ParseError(tableName) ==
    <<"CSV parsing error for ", tableName, ": ", "papaparse error">>
\* (the same message without the table name)
InsertErrorUnnamed(tableName, detail) ==
    <<"Error inserting data", "", ": ", detail>>
InsertError(tableName, detail) ==
    <<"Error inserting data into ", tableName, ": ", detail>>
ErrLoading(message) == <<"Error loading data: ">> \o message

StatusInitializing == "Initializing database..."
StatusInitialized == "Database initialized. Please upload CSV files."
StatusInitFailed == "Database initialization failed."
StatusLoading == "Loading data into database..."
StatusLoaded == "All data loaded successfully!"
StatusLoadFailed == "Data loading failed."

\* ------------------------------------------------------------------ state
VARIABLES
    db,               \* useState db: NULL until initSqlJs resolves, then "open"
    initPending,      \* initDB is suspended at `await initSqlJs'
    csv,              \* the three CSV slots (NULL: nothing uploaded)
    isLoading,
    dbStatus,
    error,
    isDatabaseReady,
    tables,           \* rows of each table of the database (set of keys)
    schemaCreated,    \* the CREATE TABLE IF NOT EXISTS statements have run
    txn,              \* NULL, or the rollback image of the open transaction
    loadPc,           \* position of loadDataIntoDB
    cur,              \* dataset parseAndInsert is working on
    rowIdx,           \* next row of the for-loop over data
    rejection,        \* message of the Error parseAndInsert rejected with
    loadLog,          \* what the pass in flight has done so far (history)
    lastPass,         \* how the last finished pass ended (history)
    variant,          \* which revision of askQuestion is deployed (1 or 2)
    apiKey,
    question,
    answer,
    chartData,
    chartType,
    askPc,            \* position of askQuestion
    resultSql,        \* what the first round trip settled with
    resultFinal,      \* what the second round trip settled with
    sqlQuery,         \* askQuestion's local sqlQuery
    queryResults,     \* askQuestion's local queryResults
    timers,           \* the live setInterval callbacks of typeText
    askLog,           \* what the current askQuestion run has done so far
    emitted,           \* the texts it has called typeText with
    executed,         \* the statements the engine has run for it
    cell,             \* one CSV cell on its way through the values mapping
    mounted,          \* the App component is mounted
    newDb             \* the Database object initDB creates, and its close() calls

loadVars ==
    <<db, initPending, csv, isLoading, dbStatus, error, isDatabaseReady,
      tables, schemaCreated, txn, loadPc, cur, rowIdx, rejection, loadLog,
      lastPass>>

askVars ==
    <<variant, apiKey, question, answer, chartData, chartType, askPc, resultSql,
      resultFinal, sqlQuery, queryResults, timers, askLog, emitted, executed>>

vars == <<loadVars, askVars, cell, mounted, newDb>>

(* A number a cell is stored as: mant / 10^scale, with no trailing zero in  *)
(* the fraction, so that equal numbers are equal records; `nan' for NaN.    *)
Num(mant, scale) == [nan |-> FALSE, mant |-> mant, scale |-> scale]
NaN == [nan |-> TRUE, mant |-> 0, scale |-> 0]

\* What the values mapping returns for a cell: a number, null, or the string.
StoredNumber(num) == [kind |-> "number", num |-> num, text |-> <<>>]
StoredNull == [kind |-> "null", num |-> NaN, text |-> <<>>]
StoredText(text) == [kind |-> "text", num |-> NaN, text |-> text]
NotStored == [kind |-> "pending", num |-> NaN, text |-> <<>>]

\* `new SQL.Database()' has not run yet; and the object once it has.
NoDatabase == [created |-> FALSE, closes |-> 0]
Created == [created |-> TRUE, closes |-> 0]
\* The component has just mounted.
JustMounted == mounted = TRUE /\ newDb = NoDatabase

\* No cell is being looked at.
NoCell == [value |-> <<>>, declared |-> "TEXT", stored |-> NotStored]

\* One entry of loadLog: the step, the dataset it belongs to, and the rows of
\* the three tables right after it.
Entry(stmt, slot, image) == [stmt |-> stmt, slot |-> slot, image |-> image]

\* lastPass: no pass yet, the dataset a pass failed at, or all ingested.
PassNone == 0
PassOk == NumTables + 1

NoTxn == [active |-> FALSE, image |-> [s \in Slots |-> {}]]

LoadInit ==
    /\ db = NULL
    /\ initPending = TRUE
    /\ csv = [s \in Slots |-> NoCsv]
    /\ isLoading = FALSE
    /\ dbStatus = StatusInitializing
    /\ error = NoError
    /\ isDatabaseReady = FALSE
    /\ tables = [s \in Slots |-> {}]
    /\ schemaCreated = FALSE
    /\ txn = NoTxn
    /\ loadPc = "idle"
    /\ cur = 0
    /\ rowIdx = 0
    /\ rejection = <<>>
    /\ loadLog = <<>>
    /\ lastPass = PassNone

\* ----------------------------------------------------- the database engine
\* db.exec("BEGIN TRANSACTION;"): the engine keeps the image to roll back to.
BeginTransaction(current) == [active |-> TRUE, image |-> current]

\* db.exec("COMMIT;") and db.exec("ROLLBACK;") end the transaction.
TransactionLeftOpen(t) == t
EndTransaction(t) == [active |-> FALSE, image |-> [s \in Slots |-> {}]]

\* db.exec("ROLLBACK;"): the tables are those of the image.
RollbackKeepsRows(image, current) == current
RolledBack(image, current) == image

\* stmt.run(values) of a plain INSERT into a table with a PRIMARY KEY: the
\* engine refuses a row whose key the table already holds.
ViolatesPrimaryKey(rows, key) == key \in rows

\* setError('') once the guards of loadDataIntoDB or askQuestion have passed.
ErrorKeptAtStart(shown) == shown
ErrorAtStart(shown) == NoError

\* finally { setIsLoading(false) }, which every way out of the try passes.
\* setIsLoading(true) once the guards are passed: the controls are disabled.
StartLeavesControlsEnabled(loading) == loading
AtStart(loading) == TRUE

FinallySkipped(loading) == loading
AfterFinally(loading) == FALSE

(* A promise's settlement and the continuation of the function awaiting it *)
(* run back to back: no event handler or timer callback comes between.     *)
BetweenTasks == askPc \notin {"gotSql", "gotAnswer"}

\* ------------------------------------------------------- initDB (mount)
InitDBResolved ==
    /\ initPending /\ loadPc = "idle" /\ BetweenTasks
    /\ initPending' = FALSE
    /\ newDb' = Created
    /\ db' = "open"
    /\ dbStatus' = StatusInitialized
    /\ UNCHANGED <<csv, isLoading, error, isDatabaseReady, tables, schemaCreated,
                   txn, loadPc, cur, rowIdx, rejection, loadLog, lastPass, askVars,
                   cell, mounted>>

InitDBRejected ==
    /\ initPending /\ loadPc = "idle" /\ BetweenTasks
    /\ initPending' = FALSE
    /\ error' = ErrInitDb
    /\ dbStatus' = StatusInitFailed
    /\ UNCHANGED <<db, csv, isLoading, isDatabaseReady, tables, schemaCreated,
                   txn, loadPc, cur, rowIdx, rejection, loadLog, lastPass, askVars, cell, mounted, newDb>>

\* ------------------------------------------------------ handleFileUpload
\* reader.onload: the text goes into the slot and the error is cleared.
FileLoaded(s, file) ==
    /\ mounted /\ loadPc = "idle" /\ BetweenTasks
    /\ csv' = [csv EXCEPT ![s] = file]
    /\ error' = NoError
    /\ UNCHANGED <<db, initPending, isLoading, dbStatus, isDatabaseReady, tables,
                   schemaCreated, txn, loadPc, cur, rowIdx, rejection, loadLog,
                   lastPass, askVars, cell, mounted, newDb>>

\* reader.onerror
FileReadFailed ==
    /\ mounted /\ loadPc = "idle" /\ BetweenTasks
    /\ error' = ErrReadFile
    /\ UNCHANGED <<db, initPending, csv, isLoading, dbStatus, isDatabaseReady,
                   tables, schemaCreated, txn, loadPc, cur, rowIdx, rejection,
                   loadLog, lastPass, askVars, cell, mounted, newDb>>

\* --------------------------------------------------------- loadDataIntoDB
\* `await parseAndInsert(...)' resolved: the next await, or the end of try.
AfterResolve(slot) == IF slot < NumTables THEN "parse" ELSE "finish"

\* `await parseAndInsert(...)' rejected: control leaves the try block.
AfterRejectSkipsDataset(slot) == AfterResolve(slot)
AfterReject(slot) == "catch"

\* What setIsDatabaseReady is called with when a pass fails: it is not called.
ReadyAfterFailure(ready) == ready

\* The button's onClick: the two guards, then the synchronous prefix up to
\* the first parseAndInsert call.
LoadClick ==
    /\ mounted /\ loadPc = "idle" /\ BetweenTasks /\ ~isLoading
    /\ IF db = NULL
         THEN /\ error' = ErrDbNotInitialized
              /\ UNCHANGED <<isLoading, dbStatus, schemaCreated, loadPc, cur,
                             loadLog>>
         ELSE IF \E s \in Slots : ~csv[s].present
         THEN /\ error' = ErrUploadAll
              /\ UNCHANGED <<isLoading, dbStatus, schemaCreated, loadPc, cur,
                             loadLog>>
         ELSE /\ isLoading' = AtStart(isLoading)
              /\ error' = ErrorAtStart(error)
              /\ dbStatus' = StatusLoading
              /\ schemaCreated' = TRUE
              /\ loadPc' = "parse"
              /\ cur' = 1
              /\ loadLog' = <<Entry("start", 0, tables)>>
    /\ UNCHANGED <<db, initPending, csv, isDatabaseReady, tables, txn, rowIdx,
                   rejection, lastPass, askVars, cell, mounted, newDb>>

\* if (results.errors.length) { reject(new Error(...)); return; }
ParseFailureIgnored(file) == FALSE
ParseFailed(file) == file.errors

\* if (data.length === 0) { console.warn(...); resolve(); return; }
NoRowsUnchecked(data) == FALSE
NoRows(data) == Len(data) = 0

\* parseAndInsert up to db.exec("BEGIN TRANSACTION;"): the `complete'
\* callback's two early exits, else the transaction is opened.
ParseDataset ==
    /\ loadPc = "parse"
    /\ LET file == csv[cur] IN
       IF ParseFailed(file)
         THEN /\ rejection' = ParseError(TABLE_SCHEMAS[cur])
              /\ loadPc' = AfterReject(cur)
              /\ loadLog' = loadLog \o <<Entry("parse", cur, tables),
                                         Entry("reject", cur, tables)>>
              /\ UNCHANGED <<txn, cur>>
         ELSE IF NoRows(file.data)
         THEN /\ loadPc' = AfterResolve(cur)
              /\ cur' = cur + 1
              /\ loadLog' = loadLog \o <<Entry("parse", cur, tables),
                                         Entry("resolve", cur, tables)>>
              /\ UNCHANGED <<txn, rejection>>
         ELSE /\ txn' = BeginTransaction(tables)
              /\ loadLog' = loadLog \o <<Entry("parse", cur, tables),
                                         Entry("BEGIN", cur, tables)>>
              /\ loadPc' = "prepare"
              /\ UNCHANGED <<rejection, cur>>
    /\ UNCHANGED <<db, initPending, csv, isLoading, dbStatus, error,
                   isDatabaseReady, tables, schemaCreated, rowIdx, lastPass, askVars, cell, mounted, newDb>>

\* stmt = db.prepare(`INSERT INTO ${tableName} (${columns}) ...`): the engine
\* throws when a header name is no column of the table.
PrepareInsert ==
    /\ loadPc = "prepare"
    /\ IF csv[cur].knownColumns
         THEN /\ loadPc' = "insert"
              /\ rowIdx' = 1
              /\ UNCHANGED rejection
         ELSE /\ loadPc' = "rollback"
              /\ rejection' = <<"table has no column named ...">>
              /\ UNCHANGED rowIdx
    /\ UNCHANGED <<db, initPending, csv, isLoading, dbStatus, error,
                   isDatabaseReady, tables, schemaCreated, txn, cur, loadLog,
                   lastPass, askVars, cell, mounted, newDb>>

\* One iteration of `for (const row of data)': stmt.run(values).
InsertRow ==
    /\ loadPc = "insert"
    /\ rowIdx <= Len(csv[cur].data)
    /\ LET key == csv[cur].data[rowIdx] IN
       IF ViolatesPrimaryKey(tables[cur], key)
         THEN /\ loadPc' = "rollback"
              /\ rejection' = <<"UNIQUE constraint failed">>
              /\ UNCHANGED <<tables, rowIdx, loadLog>>
         ELSE /\ tables' = [tables EXCEPT ![cur] = @ \cup {key}]
              /\ rowIdx' = rowIdx + 1
              /\ loadLog' = Append(loadLog, Entry("INSERT", cur, tables'))
              /\ UNCHANGED <<loadPc, rejection>>
    /\ UNCHANGED <<db, initPending, csv, isLoading, dbStatus, error,
                   isDatabaseReady, schemaCreated, txn, cur, lastPass, askVars, cell, mounted, newDb>>

\* db.exec("COMMIT;"); stmt.free(); resolve();
CommitDataset ==
    /\ loadPc = "insert"
    /\ rowIdx > Len(csv[cur].data)
    /\ txn' = EndTransaction(txn)
    /\ loadLog' = loadLog \o <<Entry("COMMIT", cur, tables),
                               Entry("resolve", cur, tables)>>
    /\ loadPc' = AfterResolve(cur)
    /\ cur' = cur + 1
    /\ rowIdx' = 0
    /\ UNCHANGED <<db, initPending, csv, isLoading, dbStatus, error,
                   isDatabaseReady, tables, schemaCreated, rejection, lastPass, askVars, cell, mounted, newDb>>

\* catch (insertErr): db.exec("ROLLBACK;"); reject(new Error(...)).
RollbackDataset ==
    /\ loadPc = "rollback"
    /\ tables' = RolledBack(txn.image, tables)
    /\ txn' = EndTransaction(txn)
    /\ loadLog' = loadLog \o <<Entry("ROLLBACK", cur, tables'),
                               Entry("reject", cur, tables')>>
    /\ rejection' = InsertError(TABLE_SCHEMAS[cur], rejection[1])
    /\ loadPc' = AfterReject(cur)
    /\ rowIdx' = 0
    /\ UNCHANGED <<db, initPending, csv, isLoading, dbStatus, error,
                   isDatabaseReady, schemaCreated, cur, lastPass, askVars, cell, mounted, newDb>>

\* The end of the try block, then finally.
LoadFinish ==
    /\ loadPc = "finish"
    /\ isDatabaseReady' = TRUE
    /\ dbStatus' = StatusLoaded
    /\ isLoading' = AfterFinally(isLoading)
    /\ loadPc' = "idle"
    /\ cur' = 0
    /\ loadLog' = <<>>
    /\ lastPass' = PassOk
    /\ UNCHANGED <<db, initPending, csv, error, tables, schemaCreated, txn,
                   rowIdx, rejection, askVars, cell, mounted, newDb>>

\* catch (err), then finally.
LoadCatch ==
    /\ loadPc = "catch"
    /\ error' = ErrLoading(rejection)
    /\ dbStatus' = StatusLoadFailed
    /\ isDatabaseReady' = ReadyAfterFailure(isDatabaseReady)
    /\ isLoading' = AfterFinally(isLoading)
    /\ loadPc' = "idle"
    /\ cur' = 0
    /\ rejection' = <<>>
    /\ loadLog' = <<>>
    /\ lastPass' = cur
    /\ UNCHANGED <<db, initPending, csv, tables, schemaCreated, txn, rowIdx,
                   askVars, cell, mounted, newDb>>

LoadStep ==
    \/ ParseDataset
    \/ PrepareInsert
    \/ InsertRow
    \/ CommitDataset
    \/ RollbackDataset
    \/ LoadFinish
    \/ LoadCatch

\* ------------------------------------------------ the data-loading system
AskIdleInit ==
    /\ apiKey = ""
    /\ question = <<>>
    /\ answer = <<>>
    /\ chartData = <<>>
    /\ chartType = NULL
    /\ askPc = "idle"
    /\ resultSql = [settled |-> "pending", hasParts |-> FALSE, text |-> <<>>]
    /\ resultFinal = [settled |-> "pending", hasParts |-> FALSE, json |-> FALSE,
                      hasAnswer |-> FALSE, answer |-> <<>>,
                      visualization |-> [present |-> FALSE, chart_type |-> NULL,
                                         labels |-> NULL, values |-> NULL]]
    /\ sqlQuery = <<>>
    /\ queryResults = <<>>
    /\ timers = <<>>
    /\ askLog = <<>>
    /\ emitted = <<>>
    /\ executed = <<>>

LoadNext ==
    \/ InitDBResolved
    \/ InitDBRejected
    \/ \E s \in Slots, file \in CsvFiles : FileLoaded(s, file)
    \/ FileReadFailed
    \/ LoadClick
    \/ LoadStep

\* loadDataIntoDB is the same text in both revisions: one of them is enough.
InitLoad == LoadInit /\ AskIdleInit /\ variant = 2 /\ cell = NoCell /\ JustMounted

SpecLoad == InitLoad /\ [][LoadNext]_vars

\* ================================================================ asking
\* ---------------------------------------------------------------- strings
(* A string is the sequence of its pieces.  The pieces of the sentinel are  *)
(* single characters; every other piece is a run of characters that holds   *)
(* no '/', so that no "N/A" straddles a piece boundary.                      *)
Trim(str) ==
    LET keep == {i \in DOMAIN str : str[i] # " "} IN
    IF keep = {} THEN <<>>
    ELSE SubSeq(str, CHOOSE i \in keep : \A j \in keep : i <= j,
                     CHOOSE i \in keep : \A j \in keep : j <= i)

UpperOf(piece) ==
    CASE piece = "n" -> "N"
      [] piece = "a" -> "A"
      [] piece = "b" -> "B"
      [] piece = "c" -> "C"
      [] piece = "e" -> "E"
      [] piece = "f" -> "F"
      [] piece = "l" -> "L"
      [] piece = "r" -> "R"
      [] piece = "s" -> "S"
      [] piece = "t" -> "T"
      [] piece = "u" -> "U"
      [] piece = "x" -> "X"
      [] OTHER -> piece
ToUpperCase(str) == [i \in DOMAIN str |-> UpperOf(str[i])]

Includes(str, pattern) ==
    \E i \in 1..(Len(str) - Len(pattern) + 1) :
        SubSeq(str, i, i + Len(pattern) - 1) = pattern

\* ------------------------------------------------------------- SQL texts
SelectFrom(tableName) ==
    <<"SELECT item_id, total FROM ", tableName, " ORDER BY item_id">>
SelectMessageNA(tableName) ==
    <<"SELECT item_id FROM ", tableName, " WHERE message = '", "N", "/", "A", "'">>
SelectNoSuchTable == <<"SELECT * FROM ", "no_such_table">>
SelectThenDelete(tableName) ==
    SelectFrom(tableName) \o <<"; ", "DELETE FROM ", tableName>>
SentinelUpper == <<"-", "-", " ", "N", "/", "A">>
SentinelLower == <<"n", "/", "a">>

\* What the model lets the LLM put into its SQL answer.
SqlTexts ==
    {SelectFrom(TABLE_SCHEMAS[s]) : s \in Slots}
    \cup {SelectMessageNA(TABLE_SCHEMAS[NumTables]), SelectNoSuchTable,
          SentinelUpper, SentinelLower, SelectThenDelete(TABLE_SCHEMAS[1])}

\* --------------------------------------------- the first LLM response
(* resultSql as askQuestion reads it: whether candidates[0].content.parts[0] *)
(* exists, and its text.  The text is a sequence of pieces: the pieces of   *)
(* the SQL text, wrapped in the JSON object of revision 1 or in the fenced  *)
(* block of revision 2.                                                      *)
JsonOpen == "{ sql_query: "
JsonClose == " }"
\* The opening line of a fenced block labelled sql, and the closing fence.
FenceOpen == "[fence sql]"
FenceClose == "[fence]"

AsJson(sql) == <<JsonOpen>> \o sql \o <<JsonClose>>
AsFenced(sql) == <<"Here is the query:", FenceOpen>> \o sql \o <<FenceClose>>
JsonWithoutField == <<"{", "}">>
NotJson == <<"Sorry, ", "I cannot do that">>

SqlResponseTexts ==
    {AsJson(q) : q \in SqlTexts} \cup {AsFenced(q) : q \in SqlTexts}
    \cup {JsonWithoutField, NotJson, AsFenced(<<>>), AsJson(<<>>), AsFenced(<<" ">>)}

SqlResponses ==
    {[settled |-> "resolved", hasParts |-> TRUE, text |-> t] : t \in SqlResponseTexts}
    \cup {[settled |-> "resolved", hasParts |-> FALSE, text |-> <<>>],
          [settled |-> "rejected", hasParts |-> FALSE, text |-> <<>>]}

\* The outcome of extracting sqlQuery: "ok" with the text, "invalid" (the
\* handled failure: setError and return) or "undefined" (revision 1 when the
\* object has no sql_query: the later sqlQuery.toUpperCase() throws).
Extracted(kind, sql) == [kind |-> kind, sql |-> sql]

\* Revision 1: JSON.parse(jsonText).sql_query
ExtractJson(text) ==
    IF text = JsonWithoutField THEN Extracted("undefined", <<>>)
    ELSE IF Len(text) >= 2 /\ text[1] = JsonOpen /\ text[Len(text)] = JsonClose
    THEN Extracted("ok", SubSeq(text, 2, Len(text) - 1))
    ELSE Extracted("invalid", <<>>)

\* Revision 2: the first fenced sql block of rawText (lazy match), trimmed.
ExtractFenced(text) ==
    LET opens == {i \in DOMAIN text : text[i] = FenceOpen /\
                     \E j \in (i + 1)..Len(text) : text[j] = FenceClose} IN
    IF opens = {} THEN Extracted("invalid", <<>>)
    ELSE LET o == CHOOSE i \in opens : \A j \in opens : i <= j
             c == CHOOSE j \in (o + 1)..Len(text) :
                      /\ text[j] = FenceClose
                      /\ \A k \in (o + 1)..(j - 1) : text[k] # FenceClose
             body == SubSeq(text, o + 1, c - 1)
         IN IF body = <<>> THEN Extracted("invalid", <<>>)
            ELSE Extracted("ok", Trim(body))

ExtractSql(rev, text) == IF rev = 1 THEN ExtractJson(text) ELSE ExtractFenced(text)

\* sqlQuery.toUpperCase().includes("N/A")
IsExactlySentinel(sql) == ToUpperCase(sql) = <<"N", "/", "A">>
IsUnanswerable(sql) == Includes(ToUpperCase(sql), <<"N", "/", "A">>)

\* ------------------------------------------------------ the query engine
\* The keys of a table in ascending order.
Ascending(rows) ==
    CHOOSE seq \in [1..Cardinality(rows) -> rows] :
        \A i, j \in 1..Cardinality(rows) : i < j => seq[i] < seq[j]

\* res[0].values.map(row => obj): one mapping column name -> value per row.
ResultRow(key) == [item_id |-> key, total |-> 10 * key]

(* db.exec(sqlQuery) on the texts of SqlTexts.  The engine runs every       *)
(* statement of the text in turn, each committed as it ends.  The outcome:  *)
(* "error" when the engine throws, "empty" when res.length is 0 (no         *)
(* statement produced a row), else "rows" with the rows of the first        *)
(* result; `ran' lists the statements that ran and `after' the tables then. *)
ExecResult(kind, rows, detail, ran, after) ==
    [kind |-> kind, rows |-> rows, detail |-> detail, ran |-> ran, after |-> after]

SelectRows(keySet) ==
    LET keys == Ascending(keySet) IN [i \in DOMAIN keys |-> ResultRow(keys[i])]

Exec(sql, tbls) ==
    IF \E s \in Slots : sql = SelectFrom(TABLE_SCHEMAS[s])
    THEN LET s == CHOOSE x \in Slots : sql = SelectFrom(TABLE_SCHEMAS[x]) IN
         IF tbls[s] = {}
         THEN ExecResult("empty", <<>>, "", <<"SELECT">>, tbls)
         ELSE ExecResult("rows", SelectRows(tbls[s]), "", <<"SELECT">>, tbls)
    ELSE IF \E s \in Slots : sql = SelectThenDelete(TABLE_SCHEMAS[s])
    THEN LET s == CHOOSE x \in Slots : sql = SelectThenDelete(TABLE_SCHEMAS[x])
             after == [tbls EXCEPT ![s] = {}]
         IN IF tbls[s] = {}
            THEN ExecResult("empty", <<>>, "", <<"SELECT", "DELETE">>, after)
            ELSE ExecResult("rows", SelectRows(tbls[s]), "",
                            <<"SELECT", "DELETE">>, after)
    ELSE IF sql = SelectNoSuchTable
    THEN ExecResult("error", <<>>, "no such table", <<>>, tbls)
    ELSE IF sql = SentinelLower
    THEN ExecResult("error", <<>>, "syntax error", <<>>, tbls)
    ELSE ExecResult("empty", <<>>, "", <<>>, tbls)

\* ------------------------------------------------- the second LLM response
(* resultFinal: whether candidates[0].content.parts[0] exists, whether its  *)
(* text is JSON, and the parsed object: whether it has an answer, the       *)
(* answer, and the visualization (absent, or chart_type / labels / values,  *)
(* each a string or null).                                                   *)
AnswerTexts == {<<"The total is 10.">>}

NoVisualization ==
    [present |-> FALSE, chart_type |-> NULL, labels |-> NULL, values |-> NULL]
Visualizations ==
    {NoVisualization}
    \cup [present : {TRUE},
          chart_type : {NULL, "bar"},
          labels : {NULL, "item_id", "no_such_column", "constructor"},
          values : {NULL, "total", "no_such_column"}]

AnswerResponses ==
    [settled : {"resolved"}, hasParts : {TRUE}, json : {TRUE}, hasAnswer : {TRUE},
     answer : AnswerTexts, visualization : Visualizations]
    \cup [settled : {"resolved"}, hasParts : {TRUE}, json : {TRUE},
          hasAnswer : {FALSE}, answer : {<<>>}, visualization : Visualizations]
    \cup {[settled |-> "resolved", hasParts |-> TRUE, json |-> FALSE,
           hasAnswer |-> FALSE, answer |-> <<>>, visualization |-> NoVisualization],
          [settled |-> "resolved", hasParts |-> FALSE, json |-> FALSE,
           hasAnswer |-> FALSE, answer |-> <<>>, visualization |-> NoVisualization],
          [settled |-> "rejected", hasParts |-> FALSE, json |-> FALSE,
           hasAnswer |-> FALSE, answer |-> <<>>, visualization |-> NoVisualization]}

\* ------------------------------------------------------------ the chart
\* JavaScript truthiness of a string-or-null.
Truthy(x) == x # NULL /\ x # ""

\* Names every plain object inherits from Object.prototype.
ObjectPrototypeNames ==
    {"constructor", "toString", "valueOf", "hasOwnProperty", "isPrototypeOf",
     "propertyIsEnumerable", "toLocaleString", "__proto__"}

(* row[col] on the plain object built for a result row: the column's value, *)
(* else what the prototype chain yields, else undefined.                     *)
PropertyLookup(row, col) ==
    IF col \in DOMAIN row
    THEN [kind |-> "value", val |-> row[col]]
    ELSE IF col \in ObjectPrototypeNames
    THEN [kind |-> "inherited", val |-> 0]
    ELSE [kind |-> "undefined", val |-> 0]

\* l !== undefined && l !== null
DefinedNotNull(x) == x.kind \in {"value", "inherited"}

\* queryResults.map(row => row[col])
ProjectReversed(rows, col) ==
    [i \in DOMAIN rows |-> PropertyLookup(rows[Len(rows) + 1 - i], col)]
Project(rows, col) == [i \in DOMAIN rows |-> PropertyLookup(rows[i], col)]

\* useState(null) for chartData: the empty sequence; else one chart.
NoChartData == <<>>
ChartDataOf(labels, values, labelsCol, valuesCol) ==
    <<[labels |-> labels, data |-> values,
       label |-> <<valuesCol, " by ", labelsCol>>]>>

\* ------------------------------------------------------------- messages
MsgCannotAnswer(rev) ==
    <<IF rev = 1
      THEN "I'm sorry, I cannot answer that question with the available data."
      ELSE "I'm sorry, I cannot answer that question with the available data or derived metrics.">>
MsgNoResults == <<"The query executed successfully but returned no results.">>

ErrApiKey == <<"Please enter your Gemini API Key.">>
ErrNotReady == <<"Please load the datasets into the database first.">>
ErrNoQuestion == <<"Please enter a question.">>
ErrNoSql == <<"Failed to get SQL query from AI. Please try again.">>
ErrBadSqlText(rev, text) ==
    IF rev = 1
    THEN <<"AI returned invalid JSON for SQL: ">> \o text \o <<". Error: ", "SyntaxError">>
    ELSE <<"AI did not return a valid SQL code block. Raw response: ">> \o text \o <<"...">>
ErrSqlExecutionWithoutSql(detail, sql) == <<"SQL execution error: ", detail>>
ErrSqlExecution(detail, sql) ==
    <<"SQL execution error: ", detail, ". Generated SQL: ">> \o sql
ErrUnreadable(rev) ==
    IF rev = 1
    THEN <<"AI returned an unreadable response. Error: ", "SyntaxError">>
    ELSE <<"AI returned an unreadable response. It might be generating too much text. Error: ",
           "SyntaxError">>
ErrNoAnswer == <<"Failed to get a response from AI. Please try again.">>
ErrUnexpected(rev, message) ==
    <<IF rev = 1 THEN "An unexpected error occurred: "
      ELSE "An unexpected error occurred during AI processing: ", message>>
ErrChartColumns ==
    <<"AI suggested a visualization, but the data columns for it were not found. Try a different question or examine your data.">>

\* ------------------------------------------------------------- typeText
\* typeText(text, setAnswer): the answer is cleared and an interval started.
Timer(text) == [defined |-> TRUE, text |-> text, i |-> 0]

(* typeText(undefined, setAnswer): the interval is started all the same, and *)
(* each firing of its callback throws at text.length, before clearInterval: *)
(* it lives on and changes nothing.  Such intervals are all alike, and the  *)
(* model keeps one for any number of them.                                   *)
TimerOfUndefined == [defined |-> FALSE, text |-> <<>>, i |-> 0]
Typing(live) == {k \in DOMAIN live : live[k].defined}
StartTimer(live, t) ==
    IF ~t.defined /\ \E k \in DOMAIN live : ~live[k].defined
    THEN live ELSE Append(live, t)

\* text.charAt(n) with n counted from 0: the empty string past the end.
CharAt(text, n) == IF n + 1 \in DOMAIN text THEN <<text[n + 1]>> ELSE <<>>

(* One firing of an interval callback.  While i < text.length it queues     *)
(* setter(prev => prev + text.charAt(i)) and increments i; React runs the   *)
(* queued function either at once (i not yet incremented) or when it next   *)
(* renders (i already incremented).  Otherwise the interval is cleared.     *)
TypeTick(k, late) ==
    /\ loadPc = "idle" /\ BetweenTasks
    /\ k \in DOMAIN timers
    /\ LET t == timers[k] IN
       IF ~t.defined
         THEN ~late /\ UNCHANGED <<answer, timers>>
       ELSE IF t.i < Len(t.text)
         THEN /\ answer' = answer \o CharAt(t.text, IF late THEN t.i + 1 ELSE t.i)
              /\ timers' = [timers EXCEPT ![k].i = t.i + 1]
         ELSE /\ ~late
              /\ timers' = [j \in 1..(Len(timers) - 1) |->
                               IF j < k THEN timers[j] ELSE timers[j + 1]]
              /\ UNCHANGED answer
    /\ UNCHANGED <<loadVars, cell, mounted, newDb, variant, apiKey, question, chartData, chartType,
                   askPc, resultSql, resultFinal, sqlQuery, queryResults, askLog,
                   emitted, executed>>

\* ------------------------------------------------------------ the inputs
\* onChange of the API key field.  askQuestion reads the apiKey of the
\* render it was created in, so a change during a run does not reach it.
SetApiKey(key) ==
    /\ mounted /\ loadPc = "idle" /\ BetweenTasks
    /\ apiKey' = key
    /\ UNCHANGED <<loadVars, cell, mounted, newDb, variant, question, answer, chartData, chartType,
                   askPc, resultSql, resultFinal, sqlQuery, queryResults, timers,
                   askLog, emitted,
                   executed>>

\* onChange of the question textarea, which is disabled while isLoading or
\* before the database is ready.
SetQuestion(text) ==
    /\ mounted /\ loadPc = "idle" /\ askPc = "idle"
    /\ ~isLoading /\ isDatabaseReady
    /\ question' = text
    /\ UNCHANGED <<loadVars, cell, mounted, newDb, variant, apiKey, answer, chartData, chartType,
                   askPc, resultSql, resultFinal, sqlQuery, queryResults, timers,
                   askLog, emitted,
                   executed>>

Questions == {<<>>, <<" ">>, <<"What is my total?">>}
ApiKeys == {"", "key"}

\* ------------------------------------------------------------ askQuestion
PendingSql == [settled |-> "pending", hasParts |-> FALSE, text |-> <<>>]
PendingFinal ==
    [settled |-> "pending", hasParts |-> FALSE, json |-> FALSE,
     hasAnswer |-> FALSE, answer |-> <<>>, visualization |-> NoVisualization]

\* A guard that fails returns before setAnswer(''): the answer stays.
AnswerClearedOnRejection(shown) == <<>>
AnswerOnRejection(shown) == shown

\* setChartType(null) among the resets of an accepted question.
ChartTypeKeptAtStart(kind) == kind
ChartTypeAtStart(kind) == NULL

\* The button's onClick: the four guards, the resets, and the first fetch.
askQuestion(typing) ==
    /\ mounted /\ loadPc = "idle" /\ askPc = "idle" /\ ~isLoading
    /\ Cardinality(Typing(timers)) < typing
    /\ IF apiKey = ""
         THEN /\ error' = ErrApiKey
              /\ answer' = AnswerOnRejection(answer)
              /\ UNCHANGED <<isLoading, chartData, chartType, askPc,
                             sqlQuery, queryResults, askLog, emitted, executed>>
         ELSE IF db = NULL
         THEN /\ error' = ErrDbNotInitialized
              /\ answer' = AnswerOnRejection(answer)
              /\ UNCHANGED <<isLoading, chartData, chartType, askPc,
                             sqlQuery, queryResults, askLog, emitted, executed>>
         ELSE IF ~isDatabaseReady
         THEN /\ error' = ErrNotReady
              /\ answer' = AnswerOnRejection(answer)
              /\ UNCHANGED <<isLoading, chartData, chartType, askPc,
                             sqlQuery, queryResults, askLog, emitted, executed>>
         ELSE IF Trim(question) = <<>>
         THEN /\ error' = ErrNoQuestion
              /\ answer' = AnswerOnRejection(answer)
              /\ UNCHANGED <<isLoading, chartData, chartType, askPc,
                             sqlQuery, queryResults, askLog, emitted, executed>>
         ELSE /\ isLoading' = AtStart(isLoading)
              /\ answer' = <<>>
              /\ error' = ErrorAtStart(error)
              /\ chartData' = NoChartData
              /\ chartType' = ChartTypeAtStart(chartType)
              /\ askPc' = "awaitSql"
              /\ sqlQuery' = <<>>
              /\ queryResults' = <<>>
              /\ askLog' = <<"fetch sql">>
              /\ emitted' = <<>>
              /\ executed' = <<>>
    /\ UNCHANGED <<db, initPending, csv, dbStatus, isDatabaseReady, tables,
                   schemaCreated, txn, loadPc, cur, rowIdx, rejection, loadLog,
                   lastPass, cell, mounted, newDb, variant, apiKey, question, resultSql, resultFinal,
                   timers>>

\* A question asked with no answer still being typed.
AskClick == askQuestion(MaxTimers)

\* `await fetch(apiUrlSql, ...)' and `await responseSql.json()' settle.
AskSqlSettled(result) ==
    /\ loadPc = "idle" /\ askPc = "awaitSql"
    /\ resultSql' = result
    /\ askPc' = "gotSql"
    /\ UNCHANGED <<loadVars, cell, mounted, newDb, variant, apiKey, question, answer, chartData,
                   chartType, resultFinal, sqlQuery, queryResults, timers, askLog, emitted,
                   executed>>

\* `await fetch(apiUrlResult, ...)' and `await responseResult.json()' settle.
AskAnswerSettled(result) ==
    /\ loadPc = "idle" /\ askPc = "awaitAnswer"
    /\ resultFinal' = result
    /\ askPc' = "gotAnswer"
    /\ UNCHANGED <<loadVars, cell, mounted, newDb, variant, apiKey, question, answer, chartData,
                   chartType, resultSql, sqlQuery, queryResults, timers, askLog, emitted,
                   executed>>

(* db.exec on the object `database': once close() has run on it the engine *)
(* runs nothing and throws the string "Database closed", whose .message is *)
(* undefined.                                                               *)
ExecOn(database, sql, tbls) ==
    IF database.closes > 0
    THEN ExecResult("error", <<>>, "undefined", <<>>, tbls)
    ELSE Exec(sql, tbls)

(* What a synchronous stretch of askQuestion does, as one record: where the *)
(* function is afterwards, the setError call if any (a sequence of at most  *)
(* one message), the typeText call if any, the locals, and the operations   *)
(* it performed on the database and the network.                             *)
Effect(next, err, typed, sql, rows, ops) ==
    [next |-> next, err |-> err, typed |-> typed, sql |-> sql, rows |-> rows,
     ops |-> ops]

\* db.exec returned no result set (res.length is 0): typeText and return.
OnNoRowsAsError(sql) ==
    Effect("idle", <<ErrSqlExecution("no rows", sql)>>, <<>>, sql, <<>>, <<"db.exec">>)
OnNoRows(sql) ==
    Effect("idle", <<>>, <<MsgNoResults>>, sql, <<>>, <<"db.exec">>)

\* Whether the second request follows db.exec: only when it produced rows.
AnswerRegardlessOfRows(kind) == kind # "error"
AnswerFollows(kind) == kind = "rows"

\* No sqlQuery: setError(err), setIsLoading(false), return (or the catch).
OnNoSqlSilent(err) == Effect("idle", <<>>, <<>>, <<>>, <<>>, <<>>)
OnNoSql(err) == Effect("idle", <<err>>, <<>>, <<>>, <<>>, <<>>)

(* From the first response to the second fetch, or to the return.  `x' is   *)
(* the extraction of sqlQuery from the response and `res' what db.exec      *)
(* makes of x.sql; both are consulted only on the paths that reach them.    *)
SqlStage(rev, result, x, res) ==
    IF result.settled = "rejected"
    THEN Effect("idle", <<ErrUnexpected(rev, "Failed to fetch")>>, <<>>, <<>>, <<>>, <<>>)
    ELSE IF ~result.hasParts
    THEN OnNoSql(ErrNoSql)
    ELSE
      CASE x.kind = "invalid" -> OnNoSql(ErrBadSqlText(rev, result.text))
        [] x.kind = "undefined" -> OnNoSql(ErrUnexpected(rev, "TypeError"))
        [] x.kind = "ok" ->
             IF IsUnanswerable(x.sql)
             THEN Effect("idle", <<>>, <<MsgCannotAnswer(rev)>>, x.sql, <<>>, <<>>)
             ELSE
               IF res.kind = "error"
               THEN Effect("idle", <<ErrSqlExecution(res.detail, x.sql)>>, <<>>,
                           x.sql, <<>>, <<"db.exec">>)
               ELSE IF AnswerFollows(res.kind)
               THEN Effect("awaitAnswer", <<>>, <<>>, x.sql, res.rows,
                           <<"db.exec", "fetch answer">>)
               ELSE OnNoRows(x.sql)

\* askQuestion from the first await's settlement to the next await or return.
AskSqlProcess ==
    /\ askPc = "gotSql"
    /\ \E x \in {ExtractSql(variant, resultSql.text)} :
       \E res \in {ExecOn(newDb, x.sql, tables)} :
       \E e \in {SqlStage(variant, resultSql, x, res)} :
       /\ askPc' = e.next
       /\ error' = IF e.err = <<>> THEN error ELSE e.err[1]
       /\ IF e.typed = <<>>
            THEN UNCHANGED <<answer, timers>>
            ELSE answer' = <<>> /\ timers' = Append(timers, Timer(e.typed[1]))
       /\ askLog' = askLog \o e.ops
       /\ emitted' = emitted \o e.typed
       /\ IF "db.exec" \in {e.ops[n] : n \in DOMAIN e.ops}
            THEN /\ tables' = res.after
                 /\ executed' = executed \o res.ran
            ELSE UNCHANGED <<tables, executed>>
       /\ isLoading' = IF e.next = "idle" THEN AfterFinally(isLoading) ELSE isLoading
       /\ sqlQuery' = IF e.next = "idle" THEN <<>> ELSE e.sql
       /\ queryResults' = IF e.next = "idle" THEN <<>> ELSE e.rows
    /\ resultSql' = PendingSql
    /\ UNCHANGED <<db, initPending, csv, dbStatus, isDatabaseReady,
                   schemaCreated, txn, loadPc, cur, rowIdx, rejection, loadLog,
                   lastPass, cell, mounted, newDb, variant, apiKey, question, chartData, chartType,
                   resultFinal>>

(* The chart of a visualization suggestion over the rows: "none" when the   *)
(* suggestion is absent or incomplete, "set" with the two projected columns *)
(* when every projected entry passes the check, else "rejected".            *)
ChartOf(vis, rows) ==
    IF ~(vis.present /\ Truthy(vis.chart_type) /\ Truthy(vis.labels) /\ Truthy(vis.values))
    THEN [kind |-> "none", chartType |-> NULL, chartData |-> NoChartData]
    ELSE LET labels == Project(rows, vis.labels)
             values == Project(rows, vis.values)
         IN IF /\ \A i \in DOMAIN labels : DefinedNotNull(labels[i])
               /\ \A i \in DOMAIN values : DefinedNotNull(values[i])
            THEN [kind |-> "set", chartType |-> vis.chart_type,
                  chartData |-> ChartDataOf(labels, values, vis.labels, vis.values)]
            ELSE [kind |-> "rejected", chartType |-> NULL, chartData |-> NoChartData]

\* askQuestion from the second await's settlement to its return.
AskAnswerProcess ==
    /\ askPc = "gotAnswer"
    /\ IF resultFinal.settled = "rejected"
         THEN /\ error' = ErrUnexpected(variant, "Failed to fetch")
              /\ UNCHANGED <<answer, timers, emitted, chartData, chartType>>
         ELSE IF ~resultFinal.hasParts
         THEN /\ error' = ErrNoAnswer
              /\ UNCHANGED <<answer, timers, emitted, chartData, chartType>>
         ELSE IF ~resultFinal.json
         THEN /\ error' = ErrUnreadable(variant)
              /\ UNCHANGED <<answer, timers, emitted, chartData, chartType>>
         ELSE LET chart == ChartOf(resultFinal.visualization, queryResults) IN
              /\ answer' = <<>>
              /\ timers' = StartTimer(timers,
                                IF resultFinal.hasAnswer THEN Timer(resultFinal.answer)
                                ELSE TimerOfUndefined)
              /\ emitted' = IF resultFinal.hasAnswer
                             THEN Append(emitted, resultFinal.answer) ELSE emitted
              /\ CASE chart.kind = "none" ->
                        UNCHANGED <<error, chartData, chartType>>
                   [] chart.kind = "set" ->
                        /\ chartType' = chart.chartType
                        /\ chartData' = chart.chartData
                        /\ UNCHANGED error
                   [] chart.kind = "rejected" ->
                        /\ error' = ErrChartColumns
                        /\ chartData' = NoChartData
                        /\ UNCHANGED chartType
    /\ isLoading' = AfterFinally(isLoading)
    /\ askPc' = "idle"
    /\ resultFinal' = PendingFinal
    /\ sqlQuery' = <<>>
    /\ queryResults' = <<>>
    /\ UNCHANGED <<db, initPending, csv, dbStatus, isDatabaseReady, tables,
                   schemaCreated, txn, loadPc, cur, rowIdx, rejection, loadLog,
                   lastPass, cell, mounted, newDb, variant, apiKey, question, resultSql, askLog,
                   executed>>

\* ------------------------------------------------------- the whole page
\* The three files the user has at hand, one per upload field.
SampleCsv ==
    <<WellFormedCsv(<<1, 2>>), WellFormedCsv(<<>>), WellFormedCsv(<<1>>)>>

Init == LoadInit /\ AskIdleInit /\ variant \in {1, 2} /\ cell = NoCell /\ JustMounted

Next ==
    \/ InitDBResolved
    \/ InitDBRejected
    \/ \E s \in Slots : FileLoaded(s, SampleCsv[s])
    \/ FileReadFailed
    \/ LoadClick
    \/ LoadStep
    \/ \E key \in ApiKeys : SetApiKey(key)
    \/ \E text \in Questions : SetQuestion(text)
    \/ AskClick
    \/ \E result \in SqlResponses : AskSqlSettled(result)
    \/ AskSqlProcess
    \/ \E result \in AnswerResponses : AskAnswerSettled(result)
    \/ AskAnswerProcess
    \/ \E k \in 1..(MaxTimers + 1), late \in BOOLEAN : TypeTick(k, late)

Spec == Init /\ [][Next]_vars

\* ------------------------------------------------- the end of the session
(* The component unmounts: React runs the cleanup of the effect of the last *)
(* render, `if (db) db.close()' with that render's db.  It comes between    *)
(* tasks; the event handlers are gone with the page, while the promises and *)
(* the intervals that are pending stay so.  React drops the state updates   *)
(* of an unmounted component: from here on the variables hold what the      *)
(* setters were last called with.                                           *)
Unmount ==
    /\ mounted /\ loadPc = "idle" /\ BetweenTasks
    /\ mounted' = FALSE
    /\ newDb' = IF db # NULL THEN [newDb EXCEPT !.closes = @ + 1] ELSE newDb
    /\ UNCHANGED <<loadVars, askVars, cell>>

NextSession ==
    \/ Next
    \/ Unmount

SpecSession == Init /\ [][NextSession]_vars

(* Every pending callback and promise settles: Papa.parse calls `complete', *)
(* each fetch and json() resolves or rejects, and a continuation that can   *)
(* run does run.  At most one of these is pending at a time, so that weak   *)
(* fairness of their disjunction says it of each.  Nothing is assumed of    *)
(* the user or of the typing timers.                                         *)
Settle ==
    \/ LoadStep
    \/ askPc = "awaitSql" /\ \E result \in SqlResponses : AskSqlSettled(result)
    \/ AskSqlProcess
    \/ askPc = "awaitAnswer" /\ \E result \in AnswerResponses : AskAnswerSettled(result)
    \/ AskAnswerProcess

Settling == WF_vars(Settle)

SpecSettling == Init /\ [][Next]_vars /\ Settling

\* ------------------------------------------------ questions in succession
(* The page once initDB has resolved, the three files were uploaded and     *)
(* loaded, and a key and a question were entered: the state the Ask button  *)
(* is first enabled in.                                                      *)
ReadyToAsk ==
    /\ db = "open"
    /\ initPending = FALSE
    /\ csv = SampleCsv
    /\ isLoading = FALSE
    /\ dbStatus = StatusLoaded
    /\ error = NoError
    /\ isDatabaseReady = TRUE
    /\ tables = [s \in Slots |->
                    {SampleCsv[s].data[n] : n \in DOMAIN SampleCsv[s].data}]
    /\ schemaCreated = TRUE
    /\ txn = NoTxn
    /\ loadPc = "idle"
    /\ cur = 0
    /\ rowIdx = 0
    /\ rejection = <<>>
    /\ loadLog = <<>>
    /\ lastPass = PassOk
    /\ apiKey = "key"
    /\ question = <<"What is my total?">>
    /\ answer = <<>>
    /\ chartData = NoChartData
    /\ chartType = NULL
    /\ askPc = "idle"
    /\ resultSql = PendingSql
    /\ resultFinal = PendingFinal
    /\ sqlQuery = <<>>
    /\ queryResults = <<>>
    /\ timers = <<>>
    /\ askLog = <<>>
    /\ emitted = <<>>
    /\ executed = <<>>
    /\ mounted = TRUE
    /\ newDb = Created

InitAsking == ReadyToAsk /\ variant \in {1, 2} /\ cell = NoCell

(* The Ask button is enabled again as soon as askQuestion has returned,     *)
(* while the interval of typeText goes on for 20 ms a character: the next   *)
(* question can be asked with the previous answer still being typed.        *)
AskAgain == askQuestion(MaxTimers + 1)

NextAsking ==
    \/ AskAgain
    \/ \E result \in SqlResponses : AskSqlSettled(result)
    \/ AskSqlProcess
    \/ \E result \in AnswerResponses : AskAnswerSettled(result)
    \/ AskAnswerProcess
    \/ \E k \in 1..(MaxTimers + 2), late \in BOOLEAN : TypeTick(k, late)

SpecAsking == InitAsking /\ [][NextAsking]_vars

\* ====================================================== the cell coercion
(* The values mapping of parseAndInsert, `Object.values(row).map(value =>   *)
(* ...)', applied to one cell.  Papa.parse is called without dynamicTyping, *)
(* so that every value is a string: here a sequence of characters.  The     *)
(* cells drawn hold no exponent marker after a digit and no "Infinity", so  *)
(* that a decimal literal is a sign, digits, a point and digits.            *)
DecimalDigits == <<"0", "1", "2", "3", "4", "5", "6", "7", "8", "9">>
HexDigitsLower == DecimalDigits \o <<"a", "b", "c", "d", "e", "f">>
HexDigitsUpper == DecimalDigits \o <<"A", "B", "C", "D", "E", "F">>

IsDigit(c) == \E n \in DOMAIN DecimalDigits : DecimalDigits[n] = c
DigitValue(c) == (CHOOSE n \in DOMAIN DecimalDigits : DecimalDigits[n] = c) - 1
IsHexDigit(c) ==
    \E n \in DOMAIN HexDigitsLower : c \in {HexDigitsLower[n], HexDigitsUpper[n]}
HexDigitValue(c) ==
    (CHOOSE n \in DOMAIN HexDigitsLower : c \in {HexDigitsLower[n], HexDigitsUpper[n]}) - 1

RECURSIVE DecimalValue(_)
DecimalValue(digits) ==
    IF digits = <<>> THEN 0
    ELSE 10 * DecimalValue(SubSeq(digits, 1, Len(digits) - 1))
         + DigitValue(digits[Len(digits)])

RECURSIVE HexValue(_)
HexValue(digits) ==
    IF digits = <<>> THEN 0
    ELSE 16 * HexValue(SubSeq(digits, 1, Len(digits) - 1))
         + HexDigitValue(digits[Len(digits)])

\* How many digits str holds in a row from position `from' on.
DigitRun(str, from) ==
    LET stops == {k \in from..(Len(str) + 1) : k = Len(str) + 1 \/ ~IsDigit(str[k])}
    IN (CHOOSE k \in stops : \A j \in stops : k <= j) - from

\* The number written as an integer part and a fraction part.
Decimal(negative, integerPart, fraction) ==
    LET nonzero == {k \in DOMAIN fraction : fraction[k] # "0"}
        kept == IF nonzero = {} THEN <<>>
                ELSE SubSeq(fraction, 1, CHOOSE k \in nonzero : \A j \in nonzero : j <= k)
        mant == DecimalValue(integerPart \o kept)
    IN Num(IF negative THEN 0 - mant ELSE mant, Len(kept))

(* The longest prefix of str that is a decimal literal: how many characters *)
(* it takes and the number it denotes (NaN when there is none).             *)
StrDecimalPrefix(str) ==
    LET signed == str # <<>> /\ str[1] \in {"+", "-"}
        start == IF signed THEN 2 ELSE 1
        intDigits == DigitRun(str, start)
        dotAt == start + intDigits
        hasDot == dotAt <= Len(str) /\ str[dotAt] = "."
        fracDigits == IF hasDot THEN DigitRun(str, dotAt + 1) ELSE 0
    IN IF intDigits + fracDigits = 0
       THEN [len |-> 0, num |-> NaN]
       ELSE [len |-> (dotAt - 1) + (IF hasDot THEN 1 + fracDigits ELSE 0),
             num |-> Decimal(signed /\ str[1] = "-",
                             SubSeq(str, start, dotAt - 1),
                             SubSeq(str, dotAt + 1, dotAt + fracDigits))]

\* str without its leading white space.
TrimStart(str) ==
    LET keep == {i \in DOMAIN str : str[i] # " "} IN
    IF keep = {} THEN <<>>
    ELSE SubSeq(str, CHOOSE i \in keep : \A j \in keep : i <= j, Len(str))

\* parseFloat(value): leading white space is skipped, and whatever follows
\* the longest decimal literal is ignored.
ParseFloat(str) == StrDecimalPrefix(TrimStart(str)).num

(* Number(value), the conversion isFinite(value) applies to its argument:   *)
(* the whole trimmed string has to be a numeric literal, and a literal may  *)
(* be hexadecimal (0x...); the empty string is 0.                           *)
ToNumber(str) ==
    LET t == Trim(str) IN
    IF t = <<>> THEN Num(0, 0)
    ELSE IF /\ Len(t) >= 3 /\ t[1] = "0" /\ t[2] \in {"x", "X"}
            /\ \A k \in 3..Len(t) : IsHexDigit(t[k])
    THEN Num(HexValue(SubSeq(t, 3, Len(t))), 0)
    ELSE LET p == StrDecimalPrefix(t) IN
         IF p.len = Len(t) THEN p.num ELSE NaN

IsNaN(num) == num.nan
\* isFinite(value): no cell drawn denotes an infinity.
IsFinite(str) == ~ToNumber(str).nan

\* value => { ... }: the callback of the values mapping.
Coerce(value) ==
    IF ToUpperCase(value) = <<"T", "R", "U", "E">> THEN StoredNumber(Num(1, 0))
    ELSE IF ToUpperCase(value) = <<"F", "A", "L", "S", "E">> THEN StoredNumber(Num(0, 0))
    ELSE IF Trim(value) = <<>> THEN StoredNull
    ELSE IF ~IsNaN(ParseFloat(value)) /\ IsFinite(value)
    THEN StoredNumber(ParseFloat(value))
    ELSE StoredText(value)

\* The declared types of the columns of TABLE_SCHEMAS.
ColumnTypes == {"TEXT", "REAL", "INTEGER", "BOOLEAN"}

\* The cells drawn.
CellValues ==
    {<<"T", "R", "U", "E">>, <<"t", "r", "u", "e">>, <<"F", "a", "l", "s", "e">>,
     <<"F", "A", "L", "S", "E">>, <<"t", "r", "u", "e", " ">>,
     <<>>, <<" ">>, <<" ", " ">>,
     <<"0">>, <<"1">>, <<"1", "2">>, <<"-", "3">>, <<"+", "4">>,
     <<"1", ".", "5">>, <<"1", ".", "5", "0">>, <<"0", "0", "7">>,
     <<"1", "2", ".">>, <<".", "5">>, <<" ", "7", " ">>,
     <<".">>, <<"-">>, <<"1", "2", "a", "b", "c">>, <<"1", ".", "2", ".", "3">>,
     <<"1", " ", "2">>, <<"a", "b", "c">>, <<"N", "/", "A">>,
     <<"0", "x", "1", "0">>, <<"0", "x", "f", "F">>, <<"0", "x">>}

Cells ==
    [value : CellValues, declared : ColumnTypes, stored : {NotStored}]

InitCoerce ==
    LoadInit /\ AskIdleInit /\ variant = 2 /\ cell \in Cells /\ JustMounted

\* One call of the callback: the cell's string goes in, what is bound comes out.
CoerceCell ==
    /\ cell.stored = NotStored
    /\ cell' = [cell EXCEPT !.stored = Coerce(cell.value)]
    /\ UNCHANGED <<loadVars, askVars, mounted, newDb>>

SpecCoerce == InitCoerce /\ [][CoerceCell]_vars

\* ===================================================== checked properties
Range(seq) == {seq[i] : i \in DOMAIN seq}
Distinct(seq) == \A i, j \in DOMAIN seq : seq[i] = seq[j] => i = j
Mentions(message, word) == \E i \in DOMAIN message : message[i] = word

\* The pass in flight: the tables at its start, and whether it has issued
\* `stmt' for dataset `slot'.
StartImage == loadLog[1].image
Logged(stmt, slot) ==
    \E i \in DOMAIN loadLog : loadLog[i].stmt = stmt /\ loadLog[i].slot = slot
ImageAt(stmt, slot) ==
    loadLog[CHOOSE i \in DOMAIN loadLog :
                loadLog[i].stmt = stmt /\ loadLog[i].slot = slot].image

\* A CSV that parses, names only columns of its table and repeats no key.
CleanCsv(file) ==
    file.present /\ ~file.errors /\ file.knownColumns /\ Distinct(file.data)

\* C1: ingestion of one dataset is atomic.  Whenever stmt.run fails for a row
\* of the dataset being ingested (the transaction was rolled back and
\* parseAndInsert rejected), the table holds exactly the rows it held when the
\* transaction began, loadDataIntoDB returns without touching the tables
\* again, and the error it sets is the insert error of that dataset.
C1_IngestAtomic ==
    [][(loadPc = "catch" /\ Logged("ROLLBACK", cur)) =>
          /\ tables[cur] = ImageAt("BEGIN", cur)[cur]
          /\ tables' = tables
          /\ loadPc' = "idle"
          /\ ~isLoading'
          /\ Len(error') = 5
          /\ SubSeq(error', 1, 3) =
                <<"Error loading data: ", "Error inserting data into ",
                  TABLE_SCHEMAS[cur]>>]_vars

\* C1 witness: row 2 of a dataset failed after row 1 had been inserted into a
\* table that already held a row, and the transaction was rolled back.
C1_Witness ==
    /\ loadPc = "catch"
    /\ Logged("ROLLBACK", cur)
    /\ Logged("INSERT", cur)
    /\ ImageAt("BEGIN", cur)[cur] # {}
    /\ tables[cur] = ImageAt("BEGIN", cur)[cur]

\* C2 (as claimed): a load pass in which a dataset fails leaves the ready
\* flag false and the error message non-empty.
C2_FailedPassLeavesNotReady ==
    [][loadPc = "catch" => (~isDatabaseReady' /\ error' # NoError)]_vars

\* C3 (as claimed): once a pass has ingested everything, loading a dataset
\* again from a CSV whose rows are exactly the rows its table holds is never
\* rejected.
C3_ReloadSucceeds ==
    \A s \in Slots :
        (/\ loadLog # <<>>
         /\ lastPass = PassOk
         /\ CleanCsv(csv[s]) /\ csv[s].data # <<>>
         /\ StartImage[s] = Range(csv[s].data))
        => ~Logged("reject", s)

\* C4 (as claimed): after a pass that failed at the second or third dataset, a
\* pass over three clean CSVs does not fail.
C4_RetrySucceeds ==
    (/\ lastPass \in 2..NumTables
     /\ \A s \in Slots : CleanCsv(csv[s]))
    => loadPc # "catch"

\* C5: within a pass the datasets are taken in the order of TABLE_SCHEMAS;
\* dataset i+1 is parsed only after parseAndInsert of dataset i has resolved,
\* every BEGIN is issued only after each earlier transaction has been
\* committed or rolled back, and nothing follows a rejection.
C5_DatasetsSequential ==
    \A i \in DOMAIN loadLog :
        LET e == loadLog[i] IN
        /\ e.stmt = "parse" =>
              /\ e.slot = 1 + Cardinality({j \in 1..(i - 1) :
                                              loadLog[j].stmt = "parse"})
              /\ loadLog[i - 1].stmt = IF e.slot = 1 THEN "start" ELSE "resolve"
              /\ e.slot > 1 => loadLog[i - 1].slot = e.slot - 1
        /\ e.stmt = "BEGIN" =>
              /\ loadLog[i - 1] = Entry("parse", e.slot, e.image)
              /\ \A j \in 1..(i - 1) :
                    loadLog[j].stmt = "BEGIN" =>
                        \E k \in (j + 1)..(i - 1) :
                            /\ loadLog[k].stmt \in {"COMMIT", "ROLLBACK"}
                            /\ loadLog[k].slot = loadLog[j].slot
        /\ e.stmt = "reject" => i = Len(loadLog)
        /\ (txn.active /\ i = Len(loadLog)) => e.stmt \in {"BEGIN", "INSERT"}

\* C5 witness: the third dataset's transaction is open after the first two
\* were committed.
C5_Witness ==
    /\ loadPc = "insert" /\ cur = NumTables /\ txn.active
    /\ Logged("COMMIT", 1) /\ Logged("COMMIT", 2)

\* C6: when a dataset after the first fails, every earlier dataset's table
\* holds its rows, the table of the failed dataset and of every later one
\* holds what it held when the pass began, and the error names the failed
\* dataset's table.
C6_PartialFailure ==
    [][(loadPc = "catch" /\ cur > 1) =>
          /\ \A s \in 1..(cur - 1) :
                tables'[s] = StartImage[s] \cup Range(csv[s].data)
          /\ \A s \in cur..NumTables : tables'[s] = StartImage[s]
          /\ Mentions(error', TABLE_SCHEMAS[cur])
          /\ \A s \in Slots \ {cur} : ~Mentions(error', TABLE_SCHEMAS[s])]_vars

\* C6 witness: the first dataset was committed and the second was rolled back
\* after one of its rows had been inserted.
C6_Witness ==
    /\ loadPc = "catch" /\ cur = 2
    /\ Logged("COMMIT", 1) /\ Logged("INSERT", 2) /\ Logged("ROLLBACK", 2)

\* ------------------------------------------------------- question answering
\* The first LLM response as askQuestion is about to read it, and the SQL
\* text it extracts from it.
SqlReceived ==
    askPc = "gotSql" /\ resultSql.settled = "resolved" /\ resultSql.hasParts
ExtractedKind == ExtractSql(variant, resultSql.text).kind
ExtractedSql == ExtractSql(variant, resultSql.text).sql

\* The text holds the letters n, /, a in a row, in either case.
SentinelIn(sql) ==
    \E i \in 1..(Len(sql) - 2) :
        sql[i] \in {"N", "n"} /\ sql[i + 1] = "/" /\ sql[i + 2] \in {"A", "a"}

\* typeText was called with `text' in this step.
Emits(text) == answer' = <<>> /\ timers' = Append(timers, Timer(text))

\* C7: the two LLM round trips are strictly sequential.  The step that issues
\* the answer-synthesis request is taken only with the SQL-synthesis response
\* received and a SQL text extracted from it; that text has just been
\* executed, in this order and once, and the execution returned the rows the
\* request is about, at least one.
C7_RoundTripsSequential ==
    [][("fetch answer" \notin Range(askLog) /\ "fetch answer" \in Range(askLog')) =>
          /\ SqlReceived
          /\ ExtractedKind = "ok"
          /\ askLog = <<"fetch sql">>
          /\ askLog' = <<"fetch sql", "db.exec", "fetch answer">>
          /\ sqlQuery' = ExtractedSql
          /\ Exec(ExtractedSql, tables).kind = "rows"
          /\ queryResults' = Exec(ExtractedSql, tables).rows
          /\ queryResults' # <<>>
          /\ askPc' = "awaitAnswer"]_vars

\* C7 witness: the second request is in flight, for a query that returned two
\* rows.
C7_Witness ==
    /\ askPc = "awaitAnswer"
    /\ askLog = <<"fetch sql", "db.exec", "fetch answer">>
    /\ Len(queryResults) = 2

\* C8: unanswerable short-circuit.  When the SQL text extracted from the
\* first response is or contains N/A in any case, askQuestion returns in that
\* step: it has executed nothing on the database and sent no second request,
\* the tables and the error are what they were, and typeText was called with
\* the fixed 'cannot answer' message.
C8_UnanswerableShortCircuit ==
    [][(SqlReceived /\ ExtractedKind = "ok" /\ SentinelIn(ExtractedSql)) =>
          /\ askLog' = <<"fetch sql">>
          /\ tables' = tables
          /\ error' = error
          /\ Emits(MsgCannotAnswer(variant))
          /\ askPc' = "idle"
          /\ ~isLoading']_vars

\* C8 witness: a run that ended after the first round trip with the 'cannot
\* answer' message being typed and no error.
C8_Witness ==
    /\ askPc = "idle"
    /\ askLog = <<"fetch sql">>
    /\ error = NoError
    /\ timers # <<>>
    /\ timers[Len(timers)].text = MsgCannotAnswer(variant)

\* C9: zero-row short-circuit.  When the extracted SQL executes without error
\* and yields no rows, askQuestion returns in that step: typeText was called
\* with the fixed 'no results' message, the error is what it was, no chart is
\* set and no second request was sent.  When the execution fails instead, the
\* step sets the SQL execution error and types nothing.
C9_ZeroRowShortCircuit ==
    [][(SqlReceived /\ ExtractedKind = "ok" /\ ~SentinelIn(ExtractedSql)) =>
          /\ (Exec(ExtractedSql, tables).kind = "empty" =>
                /\ askLog' = <<"fetch sql", "db.exec">>
                /\ Emits(MsgNoResults)
                /\ error' = error
                /\ chartData' = NoChartData /\ chartType' = NULL
                /\ askPc' = "idle"
                /\ ~isLoading')
          /\ (Exec(ExtractedSql, tables).kind = "error" =>
                /\ askLog' = <<"fetch sql", "db.exec">>
                /\ error'[1] = "SQL execution error: "
                /\ UNCHANGED <<answer, timers>>
                /\ askPc' = "idle")]_vars

\* C9 witness: a run that ended after executing a query on the empty table,
\* with the 'no results' message being typed, no error and no chart.
C9_Witness ==
    /\ askPc = "idle"
    /\ askLog = <<"fetch sql", "db.exec">>
    /\ error = NoError
    /\ chartData = NoChartData
    /\ timers # <<>>
    /\ timers[Len(timers)].text = MsgNoResults

\* The column set of a query result with at least one row.
Columns(rows) == DOMAIN rows[1]

\* C10 (as claimed): when the second response suggests a chart whose label
\* column or value column is not a column of the query result, askQuestion
\* ends with chartData and chartType both null, and typeText was called with
\* the answer of that response.
C10_NoChartForUnknownColumn ==
    [][(/\ askPc = "gotAnswer"
        /\ resultFinal.settled = "resolved"
        /\ resultFinal.hasParts /\ resultFinal.json /\ resultFinal.hasAnswer
        /\ resultFinal.visualization.present
        /\ \/ resultFinal.visualization.labels \notin Columns(queryResults)
           \/ resultFinal.visualization.values \notin Columns(queryResults)) =>
          /\ chartData' = NoChartData
          /\ chartType' = NULL
          /\ Emits(resultFinal.answer)]_vars

\* The second LLM response as askQuestion is about to read it.
AnswerReceived ==
    askPc = "gotAnswer" /\ resultFinal.settled = "resolved" /\ resultFinal.hasParts

\* C11 (as claimed): when the second response carries an answer and a
\* visualization with a chart kind, and askQuestion ends with no chart, the
\* error shown is the chart warning and typeText was called with the answer.
C11_DroppedChartWarns ==
    [][(/\ AnswerReceived
        /\ resultFinal.json /\ resultFinal.hasAnswer
        /\ resultFinal.visualization.present
        /\ Truthy(resultFinal.visualization.chart_type)
        /\ chartData' = NoChartData) =>
          /\ error' = ErrChartColumns
          /\ Emits(resultFinal.answer)]_vars

\* C12 (as claimed): when the text of the second response is not JSON, or is
\* JSON without an answer, askQuestion returns with a non-empty error, no
\* chart, and isLoading false.
C12_MalformedAnswerSurfaces ==
    [][(AnswerReceived /\ (~resultFinal.json \/ ~resultFinal.hasAnswer)) =>
          /\ error' # NoError
          /\ chartData' = NoChartData /\ chartType' = NULL
          /\ askPc' = "idle"
          /\ ~isLoading']_vars

\* The text of a first response holds no SQL statement: in revision 1 it is
\* not the JSON object with the sql_query field (the field is absent, or the
\* text is not JSON); in revision 2 it has no fenced sql block with a body.
NoSqlIn(rev, text) ==
    IF rev = 1
    THEN ~(Len(text) >= 2 /\ text[1] = JsonOpen /\ text[Len(text)] = JsonClose)
    ELSE ~\E i, j \in DOMAIN text :
             text[i] = FenceOpen /\ text[j] = FenceClose /\ i + 1 < j

\* C13: first-stage extraction failure is a hard failure.  When the first
\* response has no candidates or parts, or its text holds no SQL statement,
\* askQuestion returns in that step with one of its extraction errors set:
\* nothing was executed, no second request was sent, typeText was not called,
\* and the tables are what they were.
C13_ExtractionFailureIsHard ==
    [][(/\ askPc = "gotSql" /\ resultSql.settled = "resolved"
        /\ (~resultSql.hasParts \/ NoSqlIn(variant, resultSql.text))) =>
          /\ error' # NoError
          /\ error'[1] \in
               {"Failed to get SQL query from AI. Please try again.",
                "AI returned invalid JSON for SQL: ",
                "AI did not return a valid SQL code block. Raw response: ",
                "An unexpected error occurred: "}
          /\ askLog' = <<"fetch sql">>
          /\ tables' = tables
          /\ UNCHANGED <<answer, timers>>
          /\ askPc' = "idle"
          /\ ~isLoading']_vars

\* C13 witness: revision 1 has just read a JSON object without sql_query; the
\* TypeError of sqlQuery.toUpperCase() was caught and reported.
C13_Witness ==
    /\ variant = 1
    /\ askPc = "idle"
    /\ askLog = <<"fetch sql">>
    /\ error = ErrUnexpected(1, "TypeError")
    /\ timers = <<>>

\* C14: execution errors preserve the offending SQL.  When the engine rejects
\* the extracted statement, the error set in that step names the engine's
\* detail and ends with the SQL text as it was executed; db.exec was called
\* once, no second request was sent, and askQuestion has returned.
C14_ExecutionErrorKeepsSql ==
    [][(/\ SqlReceived /\ ExtractedKind = "ok" /\ ~SentinelIn(ExtractedSql)
        /\ Exec(ExtractedSql, tables).kind = "error") =>
          /\ Len(error') > Len(ExtractedSql)
          /\ error'[1] = "SQL execution error: "
          /\ Mentions(error', Exec(ExtractedSql, tables).detail)
          /\ SubSeq(error', Len(error') - Len(ExtractedSql) + 1, Len(error'))
                = ExtractedSql
          /\ askLog' = <<"fetch sql", "db.exec">>
          /\ askPc' = "idle"
          /\ ~isLoading']_vars

\* C14 witness: a query on a table that does not exist was rejected and the
\* error shows its text.
C14_Witness ==
    /\ askPc = "idle"
    /\ askLog = <<"fetch sql", "db.exec">>
    /\ error # NoError
    /\ error[1] = "SQL execution error: "
    /\ Mentions(error, "no such table")
    /\ Mentions(error, "no_such_table")

\* C15 (as claimed): during one askQuestion run the engine runs at most one
\* statement.
C15_OneStatementPerQuestion == Len(executed) <= 1

\* An invocation is in flight, starts, or ends in this step.
InFlight == loadPc # "idle" \/ askPc # "idle"
Starts == ~InFlight /\ InFlight'
Ends == InFlight /\ ~InFlight'

\* The openings of the messages loadDataIntoDB and askQuestion produce once
\* they have started.
OwnErrorOpenings ==
    {"Error loading data: ",
     "Failed to get SQL query from AI. Please try again.",
     "AI returned invalid JSON for SQL: ",
     "AI did not return a valid SQL code block. Raw response: ",
     "SQL execution error: ",
     "AI returned an unreadable response. Error: ",
     "AI returned an unreadable response. It might be generating too much text. Error: ",
     "Failed to get a response from AI. Please try again.",
     "An unexpected error occurred: ",
     "An unexpected error occurred during AI processing: ",
     "AI suggested a visualization, but the data columns for it were not found. Try a different question or examine your data."}
OwnError(message) == message # NoError /\ message[1] \in OwnErrorOpenings

\* C16 (as claimed): an invocation that has started shows no error while it
\* is in flight, and ends with an error that is empty or its own.
C16_OnlyOwnErrors ==
    [][/\ (InFlight' => error' = NoError \/ OwnError(error'))
       /\ (Ends => error' = NoError \/ OwnError(error'))]_vars

\* C16 (amended): the error is cleared when an invocation starts.  From then
\* until it has ended the error is empty, or the invocation's own, or the
\* file-read error of an upload that failed meanwhile; nothing displayed
\* before its start is shown again.
C16_ErrorClearedAtStart ==
    [][/\ (Starts => error' = NoError)
       /\ ((InFlight \/ InFlight') /\ ~Starts =>
             \/ error' = NoError
             \/ OwnError(error')
             \/ error' = ErrReadFile)
       /\ (InFlight /\ error' = ErrReadFile /\ error # ErrReadFile =>
             UNCHANGED <<loadPc, askPc, isLoading>>)]_vars

\* C16 witness: a reload failed and left its error on display; then a
\* question was asked, and the error is gone while the request is in flight.
C16_Witness ==
    /\ askPc = "awaitSql"
    /\ dbStatus = StatusLoadFailed
    /\ lastPass \in Slots
    /\ error = NoError

\* C17: no error is fatal.  If every pending callback and promise settles,
\* then whenever loadDataIntoDB or askQuestion is in flight (or isLoading is
\* true) a state follows in which neither is in flight and isLoading is
\* false.
C17_EveryOperationCompletes ==
    (InFlight \/ isLoading) ~> (~InFlight /\ ~isLoading)

\* C17 witness: an askQuestion whose fetch was rejected has completed through
\* its catch and finally.
C17_Witness ==
    /\ ~InFlight /\ ~isLoading
    /\ error # NoError
    /\ error[Len(error)] = "Failed to fetch"

\* A cell the callback has returned for.
Coerced == cell.stored # NotStored
\* The cell's string equals TRUE or FALSE when case is ignored.
IsBooleanToken(value) ==
    ToUpperCase(value) \in {<<"T", "R", "U", "E">>, <<"F", "A", "L", "S", "E">>}
BooleanOf(value) ==
    IF ToUpperCase(value) = <<"T", "R", "U", "E">> THEN Num(1, 0) ELSE Num(0, 0)

(* C18: a cell equal to TRUE or FALSE (in any case) is stored as 1 or 0     *)
(* only in a column declared BOOLEAN; in a column of any other declared     *)
(* type it is stored as the text it is.                                     *)
C18_BooleanRuleGuardedByType ==
    (Coerced /\ IsBooleanToken(cell.value)) =>
        IF cell.declared = "BOOLEAN"
        THEN cell.stored = StoredNumber(BooleanOf(cell.value))
        ELSE cell.stored = StoredText(cell.value)

(* C19: in a BOOLEAN column TRUE/FALSE in any case are stored as 1/0; an    *)
(* empty or white-space-only cell is stored as null in every column; any    *)
(* other cell is stored as a number exactly when the whole string is a      *)
(* finite number, and then as the number the string denotes; and every      *)
(* remaining cell is stored unchanged as text.                              *)
C19_CoercionCorrect ==
    Coerced =>
        IF cell.declared = "BOOLEAN" /\ IsBooleanToken(cell.value)
        THEN cell.stored = StoredNumber(BooleanOf(cell.value))
        ELSE IF Trim(cell.value) = <<>>
        THEN cell.stored = StoredNull
        ELSE IF ~ToNumber(cell.value).nan
        THEN cell.stored = StoredNumber(ToNumber(cell.value))
        ELSE cell.stored = StoredText(cell.value)

(* C20: a dataset whose CSV parses to a header and no data row is a no-op   *)
(* that succeeds.  The step of parseAndInsert on it opens no transaction,   *)
(* issues no statement for the dataset, leaves every table, the rejection   *)
(* and the error as they were, resolves, and the pass goes on to the next   *)
(* dataset, or to the end of the try block after the last one.              *)
C20_EmptyDatasetIsNoOp ==
    [][(loadPc = "parse" /\ ~csv[cur].errors /\ csv[cur].data = <<>>) =>
          /\ tables' = tables
          /\ ~txn.active /\ txn' = txn
          /\ rejection' = rejection
          /\ error' = error
          /\ \A i \in DOMAIN loadLog' :
                loadLog'[i].slot = cur => loadLog'[i].stmt \in {"parse", "resolve"}
          /\ loadLog'[Len(loadLog')] = Entry("resolve", cur, tables)
          /\ cur' = cur + 1
          /\ loadPc' = IF cur < NumTables THEN "parse" ELSE "finish"]_vars

\* C20 witness: a pass has ended ready and without error although its second
\* dataset had no data row: that table is still empty, and the two around it
\* hold their rows.
C20_Witness ==
    /\ loadPc = "idle" /\ lastPass = PassOk
    /\ isDatabaseReady /\ ~isLoading
    /\ error = NoError /\ dbStatus = StatusLoaded
    /\ csv[2] = WellFormedCsv(<<>>)
    /\ tables[2] = {}
    /\ tables[1] # {} /\ tables[NumTables] # {}

(* C21: a CSV parse failure aborts the dataset before any database write.   *)
(* When results.errors is not empty, the step of parseAndInsert opens no    *)
(* transaction, issues no statement for the dataset, leaves every table as  *)
(* it was and rejects with the parse error of that dataset; the pass then   *)
(* ends in its catch, without touching the tables, with the error that      *)
(* names the dataset's table.                                               *)
C21_ParseFailureWritesNothing ==
    [][/\ (loadPc = "parse" /\ csv[cur].errors) =>
             /\ tables' = tables
             /\ ~txn.active /\ txn' = txn
             /\ \A i \in DOMAIN loadLog' :
                   loadLog'[i].slot = cur => loadLog'[i].stmt \in {"parse", "reject"}
             /\ rejection' = <<"CSV parsing error for ", TABLE_SCHEMAS[cur], ": ",
                               "papaparse error">>
             /\ loadPc' = "catch" /\ cur' = cur
       /\ (loadPc = "catch" /\ csv[cur].errors) =>
             /\ tables' = tables
             /\ tables[cur] = StartImage[cur]
             /\ ~txn'.active
             /\ error' = <<"Error loading data: ", "CSV parsing error for ",
                           TABLE_SCHEMAS[cur], ": ", "papaparse error">>
             /\ loadPc' = "idle" /\ ~isLoading']_vars

\* C21 witness: the second dataset failed to parse although rows were read
\* from it; the first had been committed, and the second table is as it was.
C21_Witness ==
    /\ loadPc = "catch" /\ cur = 2
    /\ csv[cur].errors /\ csv[cur].data # <<>>
    /\ Logged("COMMIT", 1) /\ Logged("reject", cur)
    /\ tables[1] # {} /\ tables[cur] = StartImage[cur]

(* C22: the chart projection keeps shape and order.  Whenever askQuestion   *)
(* sets a chart for a query result of n rows, the chart's labels and its    *)
(* values both have n entries, and for every i the i-th label and the i-th  *)
(* value are what the i-th row holds in the suggested label column and in   *)
(* the suggested value column.                                              *)
C22_ChartKeepsShapeAndOrder ==
    [][(askPc = "gotAnswer" /\ chartData' # NoChartData) =>
          LET n == Len(queryResults)
              chart == chartData'[1]
              labelsCol == resultFinal.visualization.labels
              valuesCol == resultFinal.visualization.values
          IN /\ n > 0
             /\ Len(chart.labels) = n /\ Len(chart.data) = n
             /\ \A i \in 1..n :
                   /\ labelsCol \in DOMAIN queryResults[i] =>
                         chart.labels[i] =
                             [kind |-> "value", val |-> queryResults[i][labelsCol]]
                   /\ valuesCol \in DOMAIN queryResults[i] =>
                         chart.data[i] =
                             [kind |-> "value", val |-> queryResults[i][valuesCol]]]_vars

\* C22 witness: a chart of a two-row result is shown, with the labels and
\* the values of the first row first.
C22_Witness ==
    /\ askPc = "idle"
    /\ chartData # NoChartData
    /\ chartData[1].labels = <<[kind |-> "value", val |-> 1],
                               [kind |-> "value", val |-> 2]>>
    /\ chartData[1].data = <<[kind |-> "value", val |-> 10],
                             [kind |-> "value", val |-> 20]>>

\* ------------------------------------------------------------ the session
\* The session has ended and initDB is no longer pending.
SessionOver == ~mounted /\ ~initPending

(* C23 (as claimed): the Database is released exactly once at teardown.     *)
(* close() never runs twice on the object, and once the component has       *)
(* unmounted and initDB has finished, a Database that was created has been  *)
(* closed exactly once.                                                     *)
C23_DatabaseClosedExactlyOnce ==
    /\ newDb.closes <= 1
    /\ (SessionOver /\ newDb.created) => newDb.closes = 1

\* The operations the step adds to the log of the askQuestion run.
NewlyLogged ==
    IF Len(askLog') > Len(askLog)
    THEN {askLog'[i] : i \in (Len(askLog) + 1)..Len(askLog')}
    ELSE {}

(* C24: at most one of loadDataIntoDB and askQuestion is in flight at any   *)
(* time.  While one is in flight isLoading is true, so that the controls    *)
(* are disabled; a run starts only when nothing is in flight; the two are   *)
(* never in flight together; and db.exec of a synthesized query runs only   *)
(* when no load pass is under way and no transaction is open.               *)
C24_OneOperationAtATime ==
    [][/\ InFlight => isLoading
       /\ ~(loadPc # "idle" /\ askPc # "idle")
       /\ (loadPc = "idle" /\ loadPc' # "idle") => (askPc = "idle" /\ ~isLoading)
       /\ (askPc' = "awaitSql" /\ askPc # "awaitSql") =>
             (askPc = "idle" /\ loadPc = "idle" /\ ~isLoading)
       /\ "db.exec" \in NewlyLogged =>
             (loadPc = "idle" /\ ~txn.active /\ loadLog = <<>>)]_vars

\* C24 witness: a question is being answered after a load pass that left
\* rows behind; the SQL has arrived and db.exec is about to run.
C24_Witness ==
    /\ askPc = "gotSql" /\ isLoading
    /\ resultSql.settled = "resolved" /\ resultSql.hasParts
    /\ lastPass = PassOk /\ tables[1] # {}
    /\ loadPc = "idle" /\ ~txn.active

\* The messages of the guards of askQuestion and of loadDataIntoDB.
GuardErrors ==
    {<<"Please enter your Gemini API Key.">>,
     <<"Database not initialized.">>,
     <<"Please load the datasets into the database first.">>,
     <<"Please enter a question.">>,
     <<"Please upload all three CSV files.">>}

(* C25: a rejected invocation has no effect besides the error message.  A   *)
(* step that puts a guard's message on display is taken in a state that     *)
(* fails that guard (empty credential, no database, ready flag false, blank *)
(* question, a CSV missing), and changes nothing else: isLoading, answer,   *)
(* chart, ready flag, status, database and tables stay, no request is sent  *)
(* and no SQL is executed.                                                  *)
C25_RejectedInvocationOnlySetsError ==
    [][(error' # error /\ error' \in GuardErrors) =>
          /\ error' = <<"Please enter your Gemini API Key.">> => apiKey = ""
          /\ error' = <<"Database not initialized.">> => db = NULL
          /\ error' = <<"Please load the datasets into the database first.">> =>
                (apiKey # "" /\ db # NULL /\ ~isDatabaseReady)
          /\ error' = <<"Please enter a question.">> =>
                (apiKey # "" /\ isDatabaseReady /\ Trim(question) = <<>>)
          /\ error' = <<"Please upload all three CSV files.">> =>
                (db # NULL /\ \E s \in Slots : ~csv[s].present)
          /\ ~isLoading /\ ~InFlight
          /\ UNCHANGED <<isLoading, answer, chartData, chartType, isDatabaseReady,
                         dbStatus, db, tables, txn, schemaCreated, csv, apiKey,
                         question, timers, loadPc, askPc, loadLog, askLog,
                         emitted, executed, sqlQuery, queryResults, lastPass, newDb>>]_vars

\* C25 witness: askQuestion was rejected for a blank question while the
\* answer and the chart of an earlier question were on display: they stay.
C25_Witness ==
    /\ error = <<"Please enter a question.">>
    /\ Trim(question) = <<>>
    /\ answer # <<>> /\ chartData # NoChartData
    /\ askPc = "idle" /\ ~isLoading /\ askLog # <<>>

\* C26 (as claimed): the displayed answer converges to the latest answer.
\* Whenever the latest askQuestion run has returned after calling typeText
\* and no typing interval is running any more, the answer on display is
\* exactly the text that run called typeText with, even if the interval of
\* an earlier answer was still running when the question was asked.
C26_AnswerConvergesToLatest ==
    (askPc = "idle" /\ Typing(timers) = {} /\ emitted # <<>>) =>
        answer = emitted[Len(emitted)]

\* C27 (as claimed): answering a question never changes the stored data.
\* Every step in which askQuestion executes the synthesized SQL text leaves
\* the contents of the three tables as they were.
C27_AnsweringLeavesDataUnchanged ==
    [][("db.exec" \in NewlyLogged) => tables' = tables]_vars

\* The entries of the pass's log before position i that are `stmt' of `slot'.
LoggedBefore(i, stmts, slot) ==
    {j \in 1..(i - 1) : loadLog[j].stmt \in stmts /\ loadLog[j].slot = slot}

\* C28: no transaction is left open.  When parseAndInsert settles its promise
\* for a dataset, each BEGIN it issued has been followed by exactly one COMMIT
\* or exactly one ROLLBACK, and whenever loadDataIntoDB is between datasets,
\* at its end, or has returned, the database has no active transaction.
C28_NoTransactionLeftOpen ==
    /\ loadPc \in {"idle", "parse", "finish", "catch"} => ~txn.active
    /\ \A i \in DOMAIN loadLog :
          loadLog[i].stmt \in {"resolve", "reject"} =>
              LET begun == LoggedBefore(i, {"BEGIN"}, loadLog[i].slot)
                  ended == LoggedBefore(i, {"COMMIT", "ROLLBACK"}, loadLog[i].slot)
              IN /\ Cardinality(begun) <= 1
                 /\ Cardinality(ended) = Cardinality(begun)
                 /\ \A b \in begun : \A e \in ended : b < e

\* C28 witness: a pass has committed the first dataset's transaction and
\* rolled back that of a later one, and is about to report the failure.
C28_Witness ==
    /\ loadPc = "catch" /\ cur > 1 /\ ~txn.active
    /\ Logged("BEGIN", 1) /\ Logged("COMMIT", 1)
    /\ Logged("BEGIN", cur) /\ Logged("ROLLBACK", cur)

\* C29 (as claimed): the database is never used after it is closed.  No step
\* of loadDataIntoDB issues a statement, and no step of askQuestion calls
\* db.exec with the synthesized query, on a Database that the cleanup effect
\* has closed.
C29_NoUseAfterClose ==
    [][((loadLog' # loadLog /\ loadLog' # <<>>) \/ "db.exec" \in NewlyLogged) =>
          newDb.closes = 0]_vars

\* chartData and chartType are both null or both set, and null while a
\* question is being answered.
ChartConsistent ==
    /\ (chartData = NoChartData) <=> (chartType = NULL)
    /\ askPc # "idle" => chartData = NoChartData

\* C30: chart state is always consistent.  Between handler steps chartData
\* is null if and only if chartType is null; accepting a question clears
\* both, they stay null until that question's answer arrives, and a chart is
\* set only by the answer stage of that question, from its query result and
\* the columns and kind its response suggests.
C30_ChartStateConsistent ==
    [][/\ ChartConsistent
       /\ ChartConsistent'
       /\ (askPc = "idle" /\ askPc' # "idle") =>
             (chartData' = NoChartData /\ chartType' = NULL)
       /\ (chartData' # chartData \/ chartType' # chartType) =>
             \/ askPc = "idle" /\ askPc' = "awaitSql"
             \/ /\ AnswerReceived
                /\ queryResults # <<>>
                /\ chartType' = resultFinal.visualization.chart_type
                /\ chartData' =
                      ChartDataOf(Project(queryResults, resultFinal.visualization.labels),
                                  Project(queryResults, resultFinal.visualization.values),
                                  resultFinal.visualization.labels,
                                  resultFinal.visualization.values)]_vars

\* C30 witness: a question has been answered with a chart, which is on
\* display together with its kind after askQuestion has returned.
C30_Witness ==
    /\ askPc = "idle" /\ ~isLoading
    /\ askLog = <<"fetch sql", "db.exec", "fetch answer">>
    /\ chartData # NoChartData /\ chartType # NULL
====
